---- MODULE Spec2Model ----
(***************************************************************************)
(* Model of fatsecret.py: the Fatsecret session object (OAuth1 token       *)
(* fields and the rauth session), its authorization methods, endpoint      *)
(* methods, unix_time, and the response interpreter valid_response.        *)
(*                                                                         *)
(* A decoded JSON envelope is a sequence of <<key, value>> pairs in the    *)
(* iteration order of the dict; a nested JSON object is a function from    *)
(* its sub-keys to values.  Python's None is the string "None".            *)
(***************************************************************************)
EXTENDS Integers, Sequences, FiniteSets, TLC

VARIABLES
    consumer_key,          \* self.consumer_key
    consumer_secret,       \* self.consumer_secret
    request_token,         \* self.request_token
    request_token_secret,  \* self.request_token_secret
    access_token,          \* self.access_token
    access_token_secret,   \* self.access_token_secret
    session,               \* self.session: the token it signs with, and whether it was closed
    ctor_arg,              \* the session_token argument the object was constructed with
    url_succeeded,         \* get_authorize_url has returned normally at least once
    auth_failed,           \* authenticate has raised at least once
    lastOp,                \* the operation performed last
    args,                  \* the arguments of the last operation
    sent,                  \* the network requests issued by the last operation
    response,              \* the decoded JSON body valid_response is applied to
    result                 \* what the last operation returned or raised

vars == <<consumer_key, consumer_secret, request_token, request_token_secret,
          access_token, access_token_secret, session, ctor_arg, url_succeeded,
          auth_failed, lastOp, args, sent, response, result>>

fields == <<consumer_key, consumer_secret, request_token, request_token_secret,
            access_token, access_token_secret, session>>

(***************************************************************************)
(* Bounds and input sets                                                   *)
(***************************************************************************)
\* the largest number of top-level keys of an envelope
MaxKeys == 2

\* the last day after the epoch from which date-times are drawn
MaxDays == 2

None == "None"

\* token and secret strings the provider can issue or the caller can supply
Tokens == {"tok", "tok2"}
Secrets == {"sec", "sec2"}

\* the session_token arguments of the constructor: a falsy value (None, an
\* empty tuple), or a 2-tuple whose components are strings or None
SessionTokenArgs ==
    {<< >>} \cup ((Tokens \cup {None}) \X (Secrets \cup {None}))

\* the JSON object {}
EmptyObject == [k \in {} |-> None]

\* error codes on both sides of every edge of every band
CodeSamples ==
    {0, 1, 2, 3, 5, 9, 10, 11, 12, 13, 19, 20, 21, 22,
     100, 101, 104, 108, 109, 200, 201, 204, 207, 208}

\* the messages of an error object
Messages == {"msg"}

\* nested error objects: well formed, or lacking `message`, `code` or both
ErrorObjects ==
    {("code" :> c) @@ ("message" :> m) : c \in CodeSamples, m \in Messages}
    \cup {("code" :> c) : c \in {2, 5, 13}}
    \cup {("message" :> m) : m \in Messages}
    \cup {EmptyObject}

\* top-level key -> the sub-key valid_response reads under it
SubKey ==
    [foods |-> "food", recipes |-> "recipe", saved_meals |-> "saved_meal",
     saved_meal_items |-> "saved_meal_item", exercise_types |-> "exercise",
     food_entries |-> "food_entry", month |-> "day"]

WrapperKeys == DOMAIN SubKey

VerbatimKeys ==
    {"food", "recipe", "recipe_types", "saved_meal_id", "saved_meal_item_id",
     "food_entry_id"}

\* keys the classification does not know
UnknownKeys == {"weight", "exercise_entries"}

\* the objects under a wrapper key: with the expected sub-key, or without it
\* (the provider omits the list when it is empty)
WrapperObjects(k) ==
    {(SubKey[k] :> "items") @@ ("total_results" :> "1"),
     ("total_results" :> "0")}

ProfileObjects ==
    {("auth_token" :> "T") @@ ("auth_secret" :> "S"),
     ("auth_token" :> "T"),
     ("other_field" :> "1")}

\* the values a top-level key can hold
ValuesOf(k) ==
    IF k = "error" THEN ErrorObjects
    ELSE IF k \in WrapperKeys THEN WrapperObjects(k)
    ELSE IF k = "profile" THEN ProfileObjects
    ELSE IF k = "success" THEN {"1", "0"}
    ELSE {"v"}

Keys ==
    {"error", "success", "profile"} \cup WrapperKeys \cup VerbatimKeys
    \cup UnknownKeys

Items == UNION {{<<k, v>> : v \in ValuesOf(k)} : k \in Keys}

\* no key occurs twice in a JSON object
DistinctKeys(e) ==
    \A i, j \in 1..Len(e) : i # j => e[i][1] # e[j][1]

\* the envelopes of at most n keys: sequences of items with distinct keys
EnvelopesUpTo(n) ==
    {e \in UNION {[1..m -> Items] : m \in 0..n} : DistinctKeys(e)}

Envelopes == EnvelopesUpTo(MaxKeys)

(***************************************************************************)
(* Outcomes of an operation                                                *)
(***************************************************************************)
Return(type, v) == [kind |-> "return", type |-> type, value |-> v]
ReturnNone == Return("None", None)
ReturnTrue == Return("bool", TRUE)

\* BaseFatsecretError.__init__(code, message) and its four subclasses
FatsecretError(exc, code, message) ==
    [kind |-> "raise", exc |-> exc, code |-> code, message |-> message]

\* an exception the library does not define (KeyError on a failed lookup)
Raise(exc) == [kind |-> "raise", exc |-> exc]

NoResult == [kind |-> "none"]

(***************************************************************************)
(* valid_response                                                          *)
(***************************************************************************)
\* ErrorBranch with code 12 missing from the GeneralError list
ErrorBranch_Without12(err) ==
    IF "code" \notin DOMAIN err THEN Raise("KeyError")
    ELSE IF "message" \notin DOMAIN err THEN Raise("KeyError")
    ELSE LET code == err["code"]
             message == err["message"]
         IN  IF code = 2
             THEN FatsecretError("AuthenticationError", 2,
                      "This api call requires an authenticated session")
             ELSE IF code \in {1, 10, 11, 20, 21}
             THEN FatsecretError("GeneralError", code, message)
             ELSE IF 3 <= code /\ code <= 9
             THEN FatsecretError("AuthenticationError", code, message)
             ELSE IF 101 <= code /\ code <= 108
             THEN FatsecretError("ParameterError", code, message)
             ELSE IF 201 <= code /\ code <= 207
             THEN FatsecretError("ApplicationError", code, message)
             ELSE [kind |-> "continue"]

\* ErrorBranch with the ApplicationError band one code too wide
ErrorBranch_Upto208(err) ==
    IF "code" \notin DOMAIN err THEN Raise("KeyError")
    ELSE IF "message" \notin DOMAIN err THEN Raise("KeyError")
    ELSE LET code == err["code"]
             message == err["message"]
         IN  IF code = 2
             THEN FatsecretError("AuthenticationError", 2,
                      "This api call requires an authenticated session")
             ELSE IF code \in {1, 10, 11, 12, 20, 21}
             THEN FatsecretError("GeneralError", code, message)
             ELSE IF 3 <= code /\ code <= 9
             THEN FatsecretError("AuthenticationError", code, message)
             ELSE IF 101 <= code /\ code <= 108
             THEN FatsecretError("ParameterError", code, message)
             ELSE IF 201 <= code /\ code <= 208
             THEN FatsecretError("ApplicationError", code, message)
             ELSE [kind |-> "continue"]

\* the error branch of valid_response for a nested error object `err`:
\* the outcome, or "continue" when no branch of the if/elif chain raises
ErrorBranch(err) ==
    IF "code" \notin DOMAIN err THEN Raise("KeyError")
    ELSE IF "message" \notin DOMAIN err THEN Raise("KeyError")
    ELSE LET code == err["code"]
             message == err["message"]
         IN  IF code = 2
             THEN FatsecretError("AuthenticationError", 2,
                      "This api call requires an authenticated session")
             ELSE IF code \in {1, 10, 11, 12, 20, 21}
             THEN FatsecretError("GeneralError", code, message)
             ELSE IF 3 <= code /\ code <= 9
             THEN FatsecretError("AuthenticationError", code, message)
             ELSE IF 101 <= code /\ code <= 108
             THEN FatsecretError("ParameterError", code, message)
             ELSE IF 201 <= code /\ code <= 207
             THEN FatsecretError("ApplicationError", code, message)
             ELSE [kind |-> "continue"]

\* Lookup returning the nested object instead of the value under the sub-key
Lookup_WholeObject(obj, sub) ==
    IF sub \in DOMAIN obj THEN Return("object", obj) ELSE Raise("KeyError")

\* response.json()[key][sub]
Lookup(obj, sub) ==
    IF sub \in DOMAIN obj THEN Return("value", obj[sub]) ELSE Raise("KeyError")

\* the `profile` branch
ProfileBranch(obj) ==
    IF "auth_token" \in DOMAIN obj
    THEN IF "auth_secret" \in DOMAIN obj
         THEN Return("pair", <<obj["auth_token"], obj["auth_secret"]>>)
         ELSE Raise("KeyError")
    ELSE Return("object", obj)

\* ScanKeys whose last branch is a bare `else` returning the value of any
\* other key
RECURSIVE ScanKeys_ElseVerbatim(_, _)
ScanKeys_ElseVerbatim(json, i) ==
    IF i > Len(json) THEN ReturnNone
    ELSE LET key == json[i][1]
             val == json[i][2]
         IN  IF key = "error"
             THEN LET r == ErrorBranch(val)
                  IN  IF r.kind = "continue"
                      THEN ScanKeys_ElseVerbatim(json, i + 1) ELSE r
             ELSE IF key = "success" THEN ReturnTrue
             ELSE IF key = "foods" THEN Lookup(val, "food")
             ELSE IF key = "recipes" THEN Lookup(val, "recipe")
             ELSE IF key = "saved_meals" THEN Lookup(val, "saved_meal")
             ELSE IF key = "saved_meal_items" THEN Lookup(val, "saved_meal_item")
             ELSE IF key = "exercise_types" THEN Lookup(val, "exercise")
             ELSE IF key = "food_entries" THEN Lookup(val, "food_entry")
             ELSE IF key = "month" THEN Lookup(val, "day")
             ELSE IF key = "profile" THEN ProfileBranch(val)
             ELSE Return("value", val)

\* the body of `for key in response.json()` from the i-th key on
RECURSIVE ScanKeys(_, _)
ScanKeys(json, i) ==
    IF i > Len(json) THEN ReturnNone
    ELSE LET key == json[i][1]
             val == json[i][2]
         IN  IF key = "error"
             THEN LET r == ErrorBranch(val)
                  IN  IF r.kind = "continue" THEN ScanKeys(json, i + 1) ELSE r
             ELSE IF key = "success" THEN ReturnTrue
             ELSE IF key = "foods" THEN Lookup(val, "food")
             ELSE IF key = "recipes" THEN Lookup(val, "recipe")
             ELSE IF key = "saved_meals" THEN Lookup(val, "saved_meal")
             ELSE IF key = "saved_meal_items" THEN Lookup(val, "saved_meal_item")
             ELSE IF key = "exercise_types" THEN Lookup(val, "exercise")
             ELSE IF key = "food_entries" THEN Lookup(val, "food_entry")
             ELSE IF key = "month" THEN Lookup(val, "day")
             ELSE IF key = "profile" THEN ProfileBranch(val)
             ELSE IF key \in {"food", "recipe", "recipe_types", "saved_meal_id",
                              "saved_meal_item_id", "food_entry_id"}
             THEN Return("value", val)
             ELSE ScanKeys(json, i + 1)

\* valid_response(response): an empty body is falsy and returns None
valid_response(json) ==
    IF Len(json) = 0 THEN ReturnNone ELSE ScanKeys(json, 1)

(***************************************************************************)
(* The session object                                                      *)
(***************************************************************************)
\* the three provider URLs and the API URL given to OAuth1Service
request_token_url == "http://www.fatsecret.com/oauth/request_token"
access_token_url == "http://www.fatsecret.com/oauth/access_token"
authorize_url == "http://www.fatsecret.com/oauth/authorize"
api_url == "http://platform.fatsecret.com/rest/server.api"

\* self.oauth.get_session(token): a new session signing with `token`
\* (<< >> when no token is given)
get_session(token) == [token |-> token, closed |-> FALSE]

\* an operation without arguments
NoArgs == [k \in {} |-> None]

\* the arguments callers pass
CallbackUrls == {"oob", "http://app.example/cb"}
Verifiers == {"1234"}
FoodIds == {"33691"}

\* what the provider answers to a token request: a (token, secret) pair, or
\* a body without one, on which the OAuth library raises KeyError
TokenAnswers == (Tokens \X Secrets) \cup {<< >>}

\* __init__ taking both access-token fields from the first component
init_SecretFromToken(ck, cs, session_token) ==
    /\ consumer_key = ck
    /\ consumer_secret = cs
    /\ request_token = None
    /\ request_token_secret = None
    /\ IF session_token # << >>
       THEN /\ access_token = session_token[1]
            /\ access_token_secret = session_token[1]
            /\ session = get_session(session_token)
       ELSE /\ access_token = None
            /\ access_token_secret = None
            /\ session = get_session(<< >>)
    /\ sent = << >>

\* Fatsecret.__init__(consumer_key, consumer_secret, session_token)
__init__(ck, cs, session_token) ==
    /\ consumer_key = ck
    /\ consumer_secret = cs
    /\ request_token = None
    /\ request_token_secret = None
    /\ IF session_token # << >>
       THEN /\ access_token = session_token[1]
            /\ access_token_secret = session_token[2]
            /\ session = get_session(session_token)
       ELSE /\ access_token = None
            /\ access_token_secret = None
            /\ session = get_session(<< >>)
    /\ sent = << >>

Init ==
    /\ \E st \in SessionTokenArgs :
          /\ ctor_arg = st
          /\ args = [session_token |-> st]
          /\ __init__("key", "secret", st)
    /\ url_succeeded = FALSE
    /\ auth_failed = FALSE
    /\ lastOp = "__init__"
    /\ response = << >>
    /\ result = NoResult

\* get_authorize_url forgetting the stored request token when the request
\* fails
get_authorize_url_ClearsOnFailure ==
    \E callback_url \in CallbackUrls, answer \in TokenAnswers :
      /\ lastOp' = "get_authorize_url"
      /\ args' = [callback_url |-> callback_url]
      /\ sent' = <<[url |-> request_token_url, method |-> "GET",
                    params |-> [oauth_callback |-> callback_url]]>>
      /\ response' = << >>
      /\ IF answer # << >>
         THEN /\ request_token' = answer[1]
              /\ request_token_secret' = answer[2]
              /\ url_succeeded' = TRUE
              /\ result' = Return("value", <<authorize_url, answer[1]>>)
         ELSE /\ request_token' = None
              /\ request_token_secret' = None
              /\ UNCHANGED url_succeeded
              /\ result' = Raise("KeyError")
      /\ UNCHANGED <<consumer_key, consumer_secret, access_token,
                     access_token_secret, session, ctor_arg, auth_failed>>

\* get_authorize_url starting the handshake from an unauthenticated object
get_authorize_url_ResetsAccess ==
    \E callback_url \in CallbackUrls, answer \in TokenAnswers :
      /\ lastOp' = "get_authorize_url"
      /\ args' = [callback_url |-> callback_url]
      /\ sent' = <<[url |-> request_token_url, method |-> "GET",
                    params |-> [oauth_callback |-> callback_url]]>>
      /\ response' = << >>
      /\ IF answer # << >>
         THEN /\ request_token' = answer[1]
              /\ request_token_secret' = answer[2]
              /\ access_token' = None
              /\ access_token_secret' = None
              /\ session' = get_session(<< >>)
              /\ url_succeeded' = TRUE
              /\ result' = Return("value", <<authorize_url, answer[1]>>)
         ELSE /\ UNCHANGED <<request_token, request_token_secret,
                             access_token, access_token_secret, session,
                             url_succeeded>>
              /\ result' = Raise("KeyError")
      /\ UNCHANGED <<consumer_key, consumer_secret, ctor_arg, auth_failed>>

\* Fatsecret.get_authorize_url(callback_url)
get_authorize_url ==
    \E callback_url \in CallbackUrls, answer \in TokenAnswers :
      /\ lastOp' = "get_authorize_url"
      /\ args' = [callback_url |-> callback_url]
      /\ sent' = <<[url |-> request_token_url, method |-> "GET",
                    params |-> [oauth_callback |-> callback_url]]>>
      /\ response' = << >>
      /\ IF answer # << >>
         THEN /\ request_token' = answer[1]
              /\ request_token_secret' = answer[2]
              /\ url_succeeded' = TRUE
              /\ result' = Return("value", <<authorize_url, answer[1]>>)
         ELSE /\ UNCHANGED <<request_token, request_token_secret,
                             url_succeeded>>
              /\ result' = Raise("KeyError")
      /\ UNCHANGED <<consumer_key, consumer_secret, access_token,
                     access_token_secret, session, ctor_arg, auth_failed>>

\* authenticate storing the access token but not its secret
authenticate_NoSecret ==
    \E verifier \in Verifiers, session_token \in TokenAnswers :
      /\ lastOp' = "authenticate"
      /\ args' = [verifier |-> verifier]
      /\ auth_failed' = (auth_failed \/ session_token = << >>)
      /\ sent' = <<[url |-> access_token_url,
                    token |-> <<request_token, request_token_secret>>,
                    params |-> [oauth_verifier |-> verifier]]>>
      /\ response' = << >>
      /\ IF session_token # << >>
         THEN /\ access_token' = session_token[1]
              /\ UNCHANGED access_token_secret
              /\ session' = get_session(session_token)
              /\ result' = Return("pair", session_token)
         ELSE /\ UNCHANGED <<access_token, access_token_secret, session>>
              /\ result' = Raise("KeyError")
      /\ UNCHANGED <<consumer_key, consumer_secret, request_token,
                     request_token_secret, ctor_arg, url_succeeded>>

\* authenticate forgetting the access token when the exchange fails
authenticate_ClearsOnFailure ==
    \E verifier \in Verifiers, session_token \in TokenAnswers :
      /\ lastOp' = "authenticate"
      /\ args' = [verifier |-> verifier]
      /\ auth_failed' = (auth_failed \/ session_token = << >>)
      /\ sent' = <<[url |-> access_token_url,
                    token |-> <<request_token, request_token_secret>>,
                    params |-> [oauth_verifier |-> verifier]]>>
      /\ response' = << >>
      /\ IF session_token # << >>
         THEN /\ access_token' = session_token[1]
              /\ access_token_secret' = session_token[2]
              /\ session' = get_session(session_token)
              /\ result' = Return("pair", session_token)
         ELSE /\ access_token' = None
              /\ access_token_secret' = None
              /\ session' = get_session(<< >>)
              /\ result' = Raise("KeyError")
      /\ UNCHANGED <<consumer_key, consumer_secret, request_token,
                     request_token_secret, ctor_arg, url_succeeded>>

\* authenticate resetting the request-token pair after the exchange
authenticate_DiscardsRequestToken ==
    \E verifier \in Verifiers, session_token \in TokenAnswers :
      /\ lastOp' = "authenticate"
      /\ args' = [verifier |-> verifier]
      /\ auth_failed' = (auth_failed \/ session_token = << >>)
      /\ sent' = <<[url |-> access_token_url,
                    token |-> <<request_token, request_token_secret>>,
                    params |-> [oauth_verifier |-> verifier]]>>
      /\ response' = << >>
      /\ IF session_token # << >>
         THEN /\ access_token' = session_token[1]
              /\ access_token_secret' = session_token[2]
              /\ session' = get_session(session_token)
              /\ request_token' = None
              /\ request_token_secret' = None
              /\ result' = Return("pair", session_token)
         ELSE /\ UNCHANGED <<access_token, access_token_secret, session,
                             request_token, request_token_secret>>
              /\ result' = Raise("KeyError")
      /\ UNCHANGED <<consumer_key, consumer_secret, ctor_arg, url_succeeded>>

\* Fatsecret.authenticate(verifier)
authenticate ==
    \E verifier \in Verifiers, session_token \in TokenAnswers :
      /\ lastOp' = "authenticate"
      /\ args' = [verifier |-> verifier]
      /\ auth_failed' = (auth_failed \/ session_token = << >>)
      /\ sent' = <<[url |-> access_token_url,
                    token |-> <<request_token, request_token_secret>>,
                    params |-> [oauth_verifier |-> verifier]]>>
      /\ response' = << >>
      /\ IF session_token # << >>
         THEN /\ access_token' = session_token[1]
              /\ access_token_secret' = session_token[2]
              /\ session' = get_session(session_token)
              /\ result' = Return("pair", session_token)
         ELSE /\ UNCHANGED <<access_token, access_token_secret, session>>
              /\ result' = Raise("KeyError")
      /\ UNCHANGED <<consumer_key, consumer_secret, request_token,
                     request_token_secret, ctor_arg, url_succeeded>>

\* Fatsecret.close()
close ==
    /\ lastOp' = "close"
    /\ args' = NoArgs
    /\ session' = [session EXCEPT !.closed = TRUE]
    /\ sent' = << >>
    /\ response' = << >>
    /\ result' = ReturnNone
    /\ UNCHANGED <<consumer_key, consumer_secret, request_token,
                   request_token_secret, access_token, access_token_secret,
                   ctor_arg, url_succeeded, auth_failed>>

\* Fatsecret.food_get(food_id): one signed GET, then valid_response on the
\* decoded body
food_get ==
    \E food_id \in FoodIds, json \in EnvelopesUpTo(1) :
      /\ lastOp' = "food_get"
      /\ args' = [food_id |-> food_id]
      /\ sent' = <<[url |-> api_url, token |-> session.token,
                    params |-> [method |-> "food.get", food_id |-> food_id,
                                format |-> "json"]]>>
      /\ response' = json
      /\ result' = valid_response(json)
      /\ UNCHANGED <<fields, ctor_arg, url_succeeded, auth_failed>>

\* Fatsecret.valid_response(response), called on its own (a staticmethod)
\* with the body the caller holds
call_valid_response ==
    /\ lastOp = "__init__"
    /\ lastOp' = "valid_response"
    /\ sent' = << >>
    /\ result' = valid_response(response)
    /\ UNCHANGED <<fields, ctor_arg, url_succeeded, auth_failed, args,
                   response>>

(***************************************************************************)
(* Dates and unix_time                                                     *)
(***************************************************************************)
\* Python's None where the other values are objects, not strings
PyNone == [type |-> "NoneType"]

\* datetime.datetime(...): the proleptic Gregorian ordinal of its date and
\* its time of day
datetime(ordinal, hour, minute, second, microsecond) ==
    [type |-> "datetime", ordinal |-> ordinal, hour |-> hour,
     minute |-> minute, second |-> second, microsecond |-> microsecond]

\* datetime.date(1970, 1, 1).toordinal()
EpochOrdinal == 719163

\* datetime.datetime.utcfromtimestamp(0)
epoch == datetime(EpochOrdinal, 0, 0, 0, 0)

\* datetime.timedelta(days, seconds, microseconds), normalized so that
\* 0 <= seconds < 86400 and 0 <= microseconds < 1000000
timedelta(days, seconds, microseconds) ==
    LET s == seconds + (microseconds \div 1000000)
    IN  [days |-> days + (s \div 86400),
         seconds |-> s % 86400,
         microseconds |-> microseconds % 1000000]

\* datetime.__sub__: a - b
datetime_sub(a, b) ==
    timedelta(a.ordinal - b.ordinal,
              (a.second + a.minute * 60 + a.hour * 3600)
                  - (b.second + b.minute * 60 + b.hour * 3600),
              a.microsecond - b.microsecond)

\* unix_time rounding to the nearest day
unix_time_Rounds(dt) ==
    LET delta == datetime_sub(dt, epoch)
    IN  IF delta.seconds >= 43200 THEN delta.days + 1 ELSE delta.days

\* Fatsecret.unix_time(dt)
unix_time(dt) ==
    LET delta == datetime_sub(dt, epoch)
    IN  delta.days

\* the date-times unix_time is applied to: the day before the epoch to
\* MaxDays days after it, at the first and last instants of the day and
\* around noon
DateTimes ==
    {datetime(EpochOrdinal + d, h, m, sec, us) :
        d \in -1..MaxDays, h \in {0, 11, 12, 23}, m \in {0, 59},
        sec \in {0, 59}, us \in {0, 999999}}

\* the date arguments of the endpoint methods: None or a date-time
DateArgs ==
    {PyNone, datetime(EpochOrdinal + 1, 0, 0, 0, 0),
     datetime(EpochOrdinal + 1, 23, 59, 59, 999999)}

\* Fatsecret.unix_time(dt), called on its own (a staticmethod)
call_unix_time ==
    \E dt \in DateTimes :
      /\ lastOp' = "unix_time"
      /\ args' = [dt |-> dt]
      /\ sent' = << >>
      /\ response' = << >>
      /\ result' = Return("int", unix_time(dt))
      /\ UNCHANGED <<fields, ctor_arg, url_succeeded, auth_failed>>

(***************************************************************************)
(* Endpoint methods                                                        *)
(***************************************************************************)
\* Python truthiness of a string argument or None
Truthy(v) == v # None /\ v # ""

\* the bodies the provider answers the endpoint methods below with
Replies ==
    {<< >>,
     <<<<"success", "1">>>>,
     <<<<"error", ("code" :> 2) @@ ("message" :> "msg")>>>>,
     <<<<"food_entries", ("food_entry" :> "items")>>>>}

\* the optional string arguments
ServingIds == {None, "", "29304"}
Units == {None, "2"}
FoodEntryIds == {None, "", "4652"}
Names == {None, "Yoga"}
Kcals == {None, "250"}
Minutes == {"30"}
ExerciseIds == {0, 1}
Days == {20}

\* params = {'method': method, 'format': 'json'}
BaseParams(method) == [method |-> method, format |-> "json"]

\* params[key] = value
With(params, key, value) ==
    [k \in DOMAIN params \cup {key} |->
        IF k = key THEN value ELSE params[k]]

\* self.session.get(self.api_url, params=params) followed by
\* return self.valid_response(response), for the method `op` called with `a`
Request(op, a, params, json) ==
    /\ lastOp' = op
    /\ args' = a
    /\ sent' = <<[url |-> api_url, token |-> session.token,
                  params |-> params]>>
    /\ response' = json
    /\ result' = valid_response(json)
    /\ UNCHANGED <<fields, ctor_arg, url_succeeded, auth_failed>>

\* a bare `return` before any request, for the method `op` called with `a`
Skip(op, a) ==
    /\ lastOp' = op
    /\ args' = a
    /\ sent' = << >>
    /\ response' = << >>
    /\ result' = ReturnNone
    /\ UNCHANGED <<fields, ctor_arg, url_succeeded, auth_failed>>

\* the parameters of food_add_favorite / food_delete_favorite with `or` in
\* place of `and`
FavoriteParams_Or(method, food_id, serving_id, number_of_units) ==
    LET params == With(BaseParams(method), "food_id", food_id)
    IN  IF Truthy(serving_id) \/ Truthy(number_of_units)
        THEN With(With(params, "serving_id", serving_id),
                  "number_of_units", number_of_units)
        ELSE params

\* the parameters food_add_favorite / food_delete_favorite assemble
FavoriteParams(method, food_id, serving_id, number_of_units) ==
    LET params == With(BaseParams(method), "food_id", food_id)
    IN  IF Truthy(serving_id) /\ Truthy(number_of_units)
        THEN With(With(params, "serving_id", serving_id),
                  "number_of_units", number_of_units)
        ELSE params

\* Fatsecret.food_add_favorite(food_id, serving_id, number_of_units)
food_add_favorite ==
    \E food_id \in FoodIds, serving_id \in ServingIds,
       number_of_units \in Units, json \in Replies :
      Request("food_add_favorite",
              [food_id |-> food_id, serving_id |-> serving_id,
               number_of_units |-> number_of_units],
              FavoriteParams("food.add_favorite", food_id, serving_id,
                             number_of_units),
              json)

\* Fatsecret.food_delete_favorite(food_id, serving_id, number_of_units)
food_delete_favorite ==
    \E food_id \in FoodIds, serving_id \in ServingIds,
       number_of_units \in Units, json \in Replies :
      Request("food_delete_favorite",
              [food_id |-> food_id, serving_id |-> serving_id,
               number_of_units |-> number_of_units],
              FavoriteParams("food.delete_favorite", food_id, serving_id,
                             number_of_units),
              json)

\* food_entries_get with `if date` in place of `elif date`
food_entries_get_IfDate ==
    \E food_entry_id \in FoodEntryIds, date \in DateArgs, json \in Replies :
      LET a == [food_entry_id |-> food_entry_id, date |-> date]
          params == BaseParams("food_entries.get")
          withId == IF Truthy(food_entry_id)
                    THEN With(params, "food_entry_id", food_entry_id)
                    ELSE params
          withDate == IF date # PyNone
                      THEN With(withId, "date", unix_time(date))
                      ELSE withId
      IN  IF Truthy(food_entry_id) \/ date # PyNone
          THEN Request("food_entries_get", a, withDate, json)
          ELSE Skip("food_entries_get", a)

\* Fatsecret.food_entries_get(food_entry_id, date)
food_entries_get ==
    \E food_entry_id \in FoodEntryIds, date \in DateArgs, json \in Replies :
      LET a == [food_entry_id |-> food_entry_id, date |-> date]
          params == BaseParams("food_entries.get")
      IN  IF Truthy(food_entry_id)
          THEN Request("food_entries_get", a,
                       With(params, "food_entry_id", food_entry_id), json)
          ELSE IF date # PyNone
          THEN Request("food_entries_get", a,
                       With(params, "date", unix_time(date)), json)
          ELSE Skip("food_entries_get", a)

\* Fatsecret.exercise_entries_get_month(date)
exercise_entries_get_month ==
    \E date \in DateArgs, json \in Replies :
      LET params == BaseParams("exercises_entries.get_month")
      IN  Request("exercise_entries_get_month", [date |-> date],
                  IF date # PyNone
                  THEN With(params, "date", unix_time(date)) ELSE params,
                  json)

\* Fatsecret.exercise_entries_save_template(days, date)
exercise_entries_save_template ==
    \E days \in Days, date \in DateArgs, json \in Replies :
      LET params == With(BaseParams("exercises_entries.get_month"),
                         "days", days)
      IN  Request("exercise_entries_save_template",
                  [days |-> days, date |-> date],
                  IF date # PyNone
                  THEN With(params, "date", unix_time(date)) ELSE params,
                  json)

\* ExerciseEditParams without the `else: return` of the shift_from branch
ExerciseEditParams_NoFromReturn(a) ==
    LET base == With(With(With(BaseParams("exercise_entry.edit"),
                               "shift_to_id", a.shift_to_id),
                          "shift_from_id", a.shift_from_id),
                     "minutes", a.minutes)
        dated == IF a.date # PyNone
                 THEN With(base, "date", unix_time(a.date)) ELSE base
        toSkips == /\ a.shift_to_id = 0
                   /\ ~ Truthy(a.shift_to_name)
                   /\ ~ Truthy(a.kcals)
        toDone == IF a.shift_to_id = 0
                  THEN IF Truthy(a.shift_to_name)
                       THEN With(dated, "shift_to_name", a.shift_to_name)
                       ELSE IF Truthy(a.kcals)
                       THEN With(dated, "kcals", a.kcals)
                       ELSE dated
                  ELSE dated
        fromSkips == FALSE
        fromDone == IF a.shift_from_id = 0 /\ Truthy(a.shift_from_name)
                    THEN With(toDone, "shift_from_name", a.shift_from_name)
                    ELSE toDone
    IN  [skip |-> toSkips \/ fromSkips, params |-> fromDone]

\* what exercise_entry_edit assembles from its arguments `a`: whether it
\* returns before the request, and the parameters of the request otherwise
ExerciseEditParams(a) ==
    LET base == With(With(With(BaseParams("exercise_entry.edit"),
                               "shift_to_id", a.shift_to_id),
                          "shift_from_id", a.shift_from_id),
                     "minutes", a.minutes)
        dated == IF a.date # PyNone
                 THEN With(base, "date", unix_time(a.date)) ELSE base
        toSkips == /\ a.shift_to_id = 0
                   /\ ~ Truthy(a.shift_to_name)
                   /\ ~ Truthy(a.kcals)
        toDone == IF a.shift_to_id = 0
                  THEN IF Truthy(a.shift_to_name)
                       THEN With(dated, "shift_to_name", a.shift_to_name)
                       ELSE IF Truthy(a.kcals)
                       THEN With(dated, "kcals", a.kcals)
                       ELSE dated
                  ELSE dated
        fromSkips == a.shift_from_id = 0 /\ ~ Truthy(a.shift_from_name)
        fromDone == IF a.shift_from_id = 0 /\ Truthy(a.shift_from_name)
                    THEN With(toDone, "shift_from_name", a.shift_from_name)
                    ELSE toDone
    IN  [skip |-> toSkips \/ fromSkips, params |-> fromDone]

\* Fatsecret.exercise_entry_edit(shift_to_id, shift_from_id, minutes, date,
\* shift_to_name, shift_from_name, kcals)
exercise_entry_edit ==
    \E shift_to_id \in ExerciseIds, shift_from_id \in ExerciseIds,
       minutes \in Minutes, date \in DateArgs, shift_to_name \in Names,
       shift_from_name \in Names, kcals \in Kcals, json \in Replies :
      LET a == [shift_to_id |-> shift_to_id, shift_from_id |-> shift_from_id,
                minutes |-> minutes, date |-> date,
                shift_to_name |-> shift_to_name,
                shift_from_name |-> shift_from_name, kcals |-> kcals]
          p == ExerciseEditParams(a)
      IN  IF p.skip
          THEN Skip("exercise_entry_edit", a)
          ELSE Request("exercise_entry_edit", a, p.params, json)

Next ==
    \/ get_authorize_url
    \/ authenticate
    \/ close
    \/ food_get
    \/ food_entries_get

\* the session object through its lifetime
Spec == Init /\ [][Next]_vars

\* the response interpreter applied to every envelope
InitVR ==
    /\ ctor_arg = << >>
    /\ args = [session_token |-> << >>]
    /\ __init__("key", "secret", << >>)
    /\ url_succeeded = FALSE
    /\ auth_failed = FALSE
    /\ lastOp = "__init__"
    /\ response \in Envelopes
    /\ result = NoResult

NextVR == call_valid_response

SpecVR == InitVR /\ [][NextVR]_vars

\* the endpoint methods and unix_time on a newly constructed object
NextEP ==
    \/ food_get
    \/ food_add_favorite
    \/ food_delete_favorite
    \/ food_entries_get
    \/ exercise_entries_get_month
    \/ exercise_entries_save_template
    \/ exercise_entry_edit
    \/ call_unix_time

SpecEP == Init /\ [][NextEP]_vars

(***************************************************************************)
(* Properties of the session object                                        *)
(***************************************************************************)
\* both access-token components are present
Authenticated == access_token # None /\ access_token_secret # None

\* exactly one access-token component is present
PartiallyAuthenticated == (access_token = None) # (access_token_secret = None)

\* the constructor was given no pair, or a pair with both components
\* present or both None
ProperCtorArg ==
    \/ ctor_arg = << >>
    \/ (ctor_arg[1] = None) = (ctor_arg[2] = None)

\* C3 (as claimed): whatever session_token the object was constructed with,
\* access_token and access_token_secret are both absent or both present.
C3_NeverPartial == ~ PartiallyAuthenticated

\* C3 (amended): an object constructed without a resumed pair, or with a
\* pair whose components are both present or both None, is never partially
\* authenticated.
C3_NeverPartialForProperPair == ProperCtorArg => ~ PartiallyAuthenticated

C3_Witness ==
    /\ ctor_arg = << >>
    /\ lastOp = "authenticate" /\ result.kind = "return"
    /\ Authenticated

\* C4 (as claimed): authenticate on an object on which get_authorize_url
\* never succeeded raises and leaves an unauthenticated object
\* unauthenticated.
C4_AuthenticateBeforeUrlFails ==
    (lastOp = "authenticate" /\ ~ url_succeeded)
        => /\ result.kind = "raise"
           /\ ctor_arg = << >> => access_token = None

\* C5 (as claimed): once both access-token components are present, no
\* operation changes them.
C5_PairNeverChanges ==
    [][Authenticated => /\ access_token' = access_token
                        /\ access_token_secret' = access_token_secret]_vars

\* C5 (amended): once both access-token components are present they stay
\* present, and only an authenticate that returns changes them, to the pair
\* it returns.
C5_StaysAuthenticated ==
    [][Authenticated =>
         /\ Authenticated'
         /\ (<<access_token', access_token_secret'>>
                 # <<access_token, access_token_secret>>)
             => /\ lastOp' = "authenticate"
                /\ result'.kind = "return"
                /\ result'.value = <<access_token', access_token_secret'>>]_vars

C5_Witness ==
    /\ ctor_arg # << >>
    /\ lastOp = "authenticate" /\ result.kind = "return"
    /\ Authenticated
    /\ <<access_token, access_token_secret>> # ctor_arg

\* C6 (as claimed): after an authenticate that returns, the request-token
\* pair is absent.
C6_RequestTokenDiscarded ==
    (lastOp = "authenticate" /\ result.kind = "return")
        => request_token = None /\ request_token_secret = None

\* C6 (amended): authenticate leaves the request-token pair as it was.
C6_RequestTokenKept ==
    [][lastOp' = "authenticate"
         => /\ request_token' = request_token
            /\ request_token_secret' = request_token_secret]_vars

C6_Witness ==
    /\ lastOp = "authenticate" /\ result.kind = "return"
    /\ request_token # None /\ request_token_secret # None

\* C7: construction issues no network request; with a resumed pair the
\* access-token fields and the session hold that pair, without one the
\* access token, the request token and the session's token are absent.
C7_Construction ==
    lastOp = "__init__"
        => /\ sent = << >>
           /\ request_token = None /\ request_token_secret = None
           /\ ~ session.closed
           /\ IF ctor_arg # << >>
              THEN /\ access_token = ctor_arg[1]
                   /\ access_token_secret = ctor_arg[2]
                   /\ session.token = ctor_arg
              ELSE /\ access_token = None
                   /\ access_token_secret = None
                   /\ session.token = << >>

C7_Witness ==
    /\ lastOp = "__init__"
    /\ ctor_arg = <<"tok", "sec">>
    /\ access_token = "tok" /\ access_token_secret = "sec"
    /\ session.token = <<"tok", "sec">>

(***************************************************************************)
(* Properties of the response interpreter                                  *)
(***************************************************************************)
TypedErrors ==
    {"GeneralError", "AuthenticationError", "ParameterError",
     "ApplicationError"}

\* the error kind the classification table gives a code, "none" outside
\* every band
BandOf(c) ==
    IF c \in {1, 10, 11, 12, 20, 21} THEN "GeneralError"
    ELSE IF c = 2 \/ (3 <= c /\ c <= 9) THEN "AuthenticationError"
    ELSE IF 101 <= c /\ c <= 108 THEN "ParameterError"
    ELSE IF 201 <= c /\ c <= 207 THEN "ApplicationError"
    ELSE "none"

Interpreted == lastOp = "valid_response"

\* the envelope has the single top-level key k
OnlyKey(k) == Len(response) = 1 /\ response[1][1] = k

\* the i-th item is an error object with both fields
WellFormedErrorAt(i) ==
    /\ response[i][1] = "error"
    /\ {"code", "message"} \subseteq DOMAIN response[i][2]

\* the i-th item is an error object with both fields and an in-band code
InBandErrorAt(i) ==
    /\ WellFormedErrorAt(i)
    /\ BandOf(response[i][2]["code"]) # "none"

\* the i-th item is a recognized non-error key holding what the table expects
WellFormedSuccessAt(i) ==
    LET k == response[i][1]
        v == response[i][2]
    IN  \/ k \in {"success", "food", "recipe", "recipe_types",
                  "saved_meal_id", "saved_meal_item_id", "food_entry_id"}
        \/ k = "foods" /\ "food" \in DOMAIN v
        \/ k = "recipes" /\ "recipe" \in DOMAIN v
        \/ k = "saved_meals" /\ "saved_meal" \in DOMAIN v
        \/ k = "saved_meal_items" /\ "saved_meal_item" \in DOMAIN v
        \/ k = "exercise_types" /\ "exercise" \in DOMAIN v
        \/ k = "food_entries" /\ "food_entry" \in DOMAIN v
        \/ k = "month" /\ "day" \in DOMAIN v
        \/ k = "profile" /\ ("auth_token" \in DOMAIN v
                                => "auth_secret" \in DOMAIN v)

\* C1: an envelope whose only key is `error`, with an integer code in a band
\* (and a message), makes valid_response raise the error kind of that band,
\* carrying the code.
C1_ErrorBands ==
    (Interpreted /\ OnlyKey("error") /\ InBandErrorAt(1))
        => /\ result.kind = "raise"
           /\ result.exc = BandOf(response[1][2]["code"])
           /\ result.code = response[1][2]["code"]

C1_Witness ==
    /\ Interpreted /\ OnlyKey("error") /\ InBandErrorAt(1)
    /\ response[1][2]["code"] = 12
    /\ result.kind = "raise" /\ result.exc = "GeneralError"

\* C2 (as claimed): when an in-band `error` key stands next to a recognized
\* key, in either order, valid_response raises the typed error.
C2_ErrorBeforeAnyOtherKey ==
    (/\ Interpreted
     /\ \E i \in 1..Len(response) : InBandErrorAt(i)
     /\ \E j \in 1..Len(response) : WellFormedSuccessAt(j)
     /\ \A j \in 1..Len(response) :
           InBandErrorAt(j) \/ WellFormedSuccessAt(j))
        => /\ result.kind = "raise"
           /\ result.exc \in TypedErrors

\* C8: an envelope whose only key is `error`, with a code outside every band
\* (and a message), makes valid_response return None and raise nothing.
C8_OutOfBandReturnsNone ==
    (/\ Interpreted /\ OnlyKey("error") /\ WellFormedErrorAt(1)
     /\ BandOf(response[1][2]["code"]) = "none")
        => result.kind = "return" /\ result.type = "None"

C8_Witness ==
    /\ Interpreted /\ OnlyKey("error") /\ WellFormedErrorAt(1)
    /\ response[1][2]["code"] = 208
    /\ result.kind = "return" /\ result.type = "None"

\* C9 (as claimed): an `error` envelope whose nested object lacks `code` or
\* `message` makes valid_response return None and raise nothing.
C9_MalformedErrorReturnsNone ==
    (/\ Interpreted /\ OnlyKey("error")
     /\ ~ ({"code", "message"} \subseteq DOMAIN response[1][2]))
        => result.kind = "return" /\ result.type = "None"

\* C10 (as claimed): valid_response either returns, or raises one of the
\* four typed errors on an envelope with an in-band `error`; it fails in no
\* other way.
C10_Total ==
    Interpreted
        => \/ result.kind = "return"
           \/ /\ result.kind = "raise"
              /\ result.exc \in TypedErrors
              /\ \E i \in 1..Len(response) : InBandErrorAt(i)

\* C11 (as claimed): for an envelope whose only key is `profile`, the result
\* is the pair (auth_token, auth_secret) when the nested object contains
\* `auth_token`, and the nested object itself otherwise.
C11_Profile ==
    (Interpreted /\ OnlyKey("profile"))
        => /\ result.kind = "return"
           /\ IF "auth_token" \in DOMAIN response[1][2]
              THEN /\ result.type = "pair"
                   /\ result.value = <<response[1][2]["auth_token"],
                                       response[1][2]["auth_secret"]>>
              ELSE /\ result.type = "object"
                   /\ result.value = response[1][2]

\* the value the classification table gives the single-key envelope <<k, v>>
\* for a recognized key k other than `error` and `profile`
TableValue(k, v) ==
    IF k = "success" THEN TRUE
    ELSE IF k = "foods" THEN v["food"]
    ELSE IF k = "recipes" THEN v["recipe"]
    ELSE IF k = "saved_meals" THEN v["saved_meal"]
    ELSE IF k = "saved_meal_items" THEN v["saved_meal_item"]
    ELSE IF k = "exercise_types" THEN v["exercise"]
    ELSE IF k = "food_entries" THEN v["food_entry"]
    ELSE IF k = "month" THEN v["day"]
    ELSE v

\* the keys of the classification table
TableKeys ==
    {"error", "success", "foods", "recipes", "saved_meals",
     "saved_meal_items", "exercise_types", "food_entries", "month",
     "profile", "food", "recipe", "recipe_types", "saved_meal_id",
     "saved_meal_item_id", "food_entry_id"}

\* C12: a well-formed envelope with a single recognized key other than
\* `error` and `profile` makes valid_response return what the table gives:
\* True for `success`, the value under the fixed sub-key for the seven
\* wrapper keys, the nested value itself for the six verbatim keys.
C12_TableValue ==
    (/\ Interpreted /\ Len(response) = 1
     /\ response[1][1] \in TableKeys \ {"error", "profile"}
     /\ WellFormedSuccessAt(1))
        => /\ result.kind = "return"
           /\ result.type = (IF response[1][1] = "success"
                              THEN "bool" ELSE "value")
           /\ result.value = TableValue(response[1][1], response[1][2])

C12_Witness ==
    /\ Interpreted /\ OnlyKey("month")
    /\ "day" \in DOMAIN response[1][2]
    /\ result.kind = "return" /\ result.type = "value"
    /\ result.value = response[1][2]["day"]

\* C13: an empty body, or an envelope none of whose keys is in the
\* classification table, makes valid_response return None and raise nothing.
C13_NoMatchReturnsNone ==
    (/\ Interpreted
     /\ \A i \in 1..Len(response) : response[i][1] \notin TableKeys)
        => result.kind = "return" /\ result.type = "None"

C13_Witness ==
    /\ Interpreted /\ Len(response) = 2
    /\ \A i \in 1..Len(response) : response[i][1] \notin TableKeys
    /\ result.kind = "return" /\ result.type = "None"

(***************************************************************************)
(* Properties of the endpoint methods and of unix_time                     *)
(***************************************************************************)
\* the whole seconds from the epoch to the date-time dt
SecondsSinceEpoch(dt) ==
    (dt.ordinal - EpochOrdinal) * 86400
        + dt.hour * 3600 + dt.minute * 60 + dt.second

\* n full days, and less than n + 1, lie between the epoch and dt
FullDays(n, dt) ==
    /\ n * 86400 <= SecondsSinceEpoch(dt)
    /\ SecondsSinceEpoch(dt) < (n + 1) * 86400

\* the parameter names of the requests of food_entries_get and of a
\* favorites request without serving
ParamsById == {"method", "format", "food_entry_id"}
ParamsByDate == {"method", "format", "date"}
ParamsFoodOnly == {"method", "format", "food_id"}
ServingParams == {"serving_id", "number_of_units"}

\* the body {"success": "1"}
SuccessBody == <<<<"success", "1">>>>

\* the last operation returned None without sending a request
Skipped ==
    /\ sent = << >>
    /\ result.kind = "return" /\ result.type = "None"

\* C14: food_entries_get sends nothing and returns None when neither
\* food_entry_id nor date is given; otherwise it sends one request, with
\* food_entry_id and no date when an id is given, and with the date as days
\* since the epoch and no id otherwise.
C14_FoodEntriesGet ==
    lastOp = "food_entries_get"
        => IF ~ Truthy(args.food_entry_id) /\ args.date = PyNone
           THEN Skipped
           ELSE /\ Len(sent) = 1
                /\ IF Truthy(args.food_entry_id)
                   THEN /\ DOMAIN sent[1].params = ParamsById
                        /\ sent[1].params["food_entry_id"]
                             = args.food_entry_id
                   ELSE /\ DOMAIN sent[1].params = ParamsByDate
                        /\ FullDays(sent[1].params["date"], args.date)

C14_Witness ==
    /\ lastOp = "food_entries_get"
    /\ args.food_entry_id = "" /\ args.date = PyNone
    /\ Skipped

\* C15 (as claimed): exercise_entry_edit is skipped whenever shift_to_id is 0
\* without shift_to_name, or shift_from_id is 0 without shift_from_name.
C15_SkippedWithoutName ==
    (/\ lastOp = "exercise_entry_edit"
     /\ \/ args.shift_to_id = 0 /\ ~ Truthy(args.shift_to_name)
        \/ args.shift_from_id = 0 /\ ~ Truthy(args.shift_from_name))
        => Skipped

\* C15 (amended): exercise_entry_edit is skipped whenever shift_to_id is 0
\* without shift_to_name and without kcals, or shift_from_id is 0 without
\* shift_from_name; with shift_to_id 0, no shift_to_name but kcals, and the
\* shift_from side in order, the request is sent with kcals.
C15_SkippedWithoutNameAndKcals ==
    lastOp = "exercise_entry_edit"
        => /\ (\/ /\ args.shift_to_id = 0
                  /\ ~ Truthy(args.shift_to_name)
                  /\ ~ Truthy(args.kcals)
               \/ /\ args.shift_from_id = 0
                  /\ ~ Truthy(args.shift_from_name))
              => Skipped
           /\ (/\ args.shift_to_id = 0
               /\ ~ Truthy(args.shift_to_name)
               /\ Truthy(args.kcals)
               /\ args.shift_from_id = 0 => Truthy(args.shift_from_name))
              => /\ Len(sent) = 1
                 /\ "kcals" \in DOMAIN sent[1].params
                 /\ sent[1].params["kcals"] = args.kcals
                 /\ "shift_to_name" \notin DOMAIN sent[1].params

C15_Witness ==
    /\ lastOp = "exercise_entry_edit"
    /\ args.shift_to_id = 0
    /\ ~ Truthy(args.shift_to_name) /\ ~ Truthy(args.kcals)
    /\ args.shift_from_id = 1
    /\ Skipped

\* C16: food_add_favorite and food_delete_favorite send one request, which
\* holds both serving_id and number_of_units when both arguments are given
\* and neither of them otherwise; the method itself raises nothing.
C16_FavoritePairing ==
    lastOp \in {"food_add_favorite", "food_delete_favorite"}
        => /\ Len(sent) = 1
           /\ IF Truthy(args.serving_id) /\ Truthy(args.number_of_units)
              THEN /\ ServingParams \subseteq DOMAIN sent[1].params
                   /\ sent[1].params["serving_id"] = args.serving_id
                   /\ sent[1].params["number_of_units"]
                          = args.number_of_units
              ELSE ServingParams \cap DOMAIN sent[1].params = {}
           /\ response = SuccessBody
                  => result.kind = "return" /\ result.type = "bool"

C16_Witness ==
    /\ lastOp = "food_add_favorite"
    /\ Truthy(args.serving_id) /\ ~ Truthy(args.number_of_units)
    /\ Len(sent) = 1
    /\ DOMAIN sent[1].params = ParamsFoodOnly
    /\ result.kind = "return"

\* C17: unix_time returns the number N of full days between the epoch and
\* the date-time, whatever the time of day: it never rounds up.
C17_UnixTimeTruncates ==
    lastOp = "unix_time"
        => /\ result.kind = "return"
           /\ FullDays(result.value, args.dt)

C17_Witness ==
    /\ lastOp = "unix_time"
    /\ args.dt.ordinal = EpochOrdinal + 2
    /\ args.dt.hour = 23 /\ args.dt.minute = 59 /\ args.dt.second = 59
    /\ args.dt.microsecond = 999999
    /\ result.value = 2

\* C18: an authenticate that raises, and a get_authorize_url that raises,
\* leave every field of the object as it was, so the handshake can be
\* started again and completed.
C18_FailureChangesNothing ==
    [][(lastOp' \in {"authenticate", "get_authorize_url"}
            /\ result'.kind = "raise")
         => UNCHANGED fields]_vars

C18_Witness ==
    /\ ctor_arg = << >>
    /\ auth_failed /\ url_succeeded
    /\ lastOp = "authenticate" /\ result.kind = "return"
    /\ Authenticated

\* the operations that are endpoint methods
EndpointOps ==
    {"food_get", "food_add_favorite", "food_delete_favorite",
     "food_entries_get", "exercise_entries_get_month",
     "exercise_entries_save_template", "exercise_entry_edit"}

\* C19 (as claimed): every request of an endpoint method has format json,
\* and two different endpoint methods never send the same method identifier.
C19_DistinctMethodIdentifiers ==
    [][(/\ lastOp \in EndpointOps /\ lastOp' \in EndpointOps
        /\ lastOp # lastOp'
        /\ sent # << >> /\ sent' # << >>)
         => /\ sent'[1].params["format"] = "json"
            /\ sent'[1].params["method"] # sent[1].params["method"]]_vars

\* what the two authorization methods own: the credentials, both token
\* pairs and the token the session signs with
AuthState ==
    <<consumer_key, consumer_secret, request_token, request_token_secret,
      access_token, access_token_secret, session.token>>

\* C20: an endpoint method leaves every field of the object unchanged,
\* whether it returns, skips the request or raises; get_authorize_url
\* changes at most the request-token pair; the authorization state changes
\* only in get_authorize_url and authenticate.
C20_Frame ==
    [][/\ lastOp' \in EndpointOps => UNCHANGED fields
       /\ lastOp' = "get_authorize_url"
             => UNCHANGED <<consumer_key, consumer_secret, access_token,
                            access_token_secret, session>>
       /\ AuthState' # AuthState
             => lastOp' \in {"get_authorize_url", "authenticate"}]_vars

C20_Witness ==
    /\ lastOp = "food_get"
    /\ result.kind = "raise" /\ result.exc \in TypedErrors
    /\ url_succeeded /\ request_token # None
    /\ Authenticated /\ session.token = <<access_token, access_token_secret>>

====
